---- MODULE Spec2Model ----
(***************************************************************************)
(* Intrusive doubly linked list (include/common_util/Intrusive_list.hpp).  *)
(*                                                                         *)
(* Addresses are integers: 0 is nullptr, 1..NumNodes are the caller-owned  *)
(* Intrusive_list_node objects, -l is &m_sentinel of list object l.        *)
(* The memory is the pair of fields m_prev / m_next of every object.       *)
(* Every method is an operator on a memory p = [prev |-> .., next |-> ..], *)
(* written statement by statement in the order of the source, so that      *)
(* aliasing between the objects a statement reads and writes is kept.      *)
(***************************************************************************)
EXTENDS Integers, Sequences, FiniteSets, TLC

\* Number of caller-owned nodes.
NumNodes == 3
\* Number of list objects (storage slots for an Intrusive_list).
NumLists == 2
\* Length of the call sequences explored.
MaxCalls == 6

Null == 0
Nodes == 1..NumNodes
Lists == 1..NumLists
Sentinel(l) == 0 - l
Sentinels == {Sentinel(l) : l \in Lists}
Addr == Nodes \cup Sentinels
Ptr == Addr \cup {Null}

VARIABLES
    m_prev,       \* m_prev[x]: field m_prev of the object at address x
    m_next,       \* m_next[x]: field m_next of the object at address x
    constructed,  \* the list objects whose constructor has run
    call,         \* the last method call: [op, l, a, b, ret]
    ncalls,       \* how many calls the caller has made
    present       \* present[l]: the nodes the caller has inserted into list l
                  \* and not yet removed from it

vars == <<m_prev, m_next, constructed, call, ncalls, present>>

\* The memory as one value.
Mem == [prev |-> m_prev, next |-> m_next]

NoCall == [op |-> "none", l |-> 0, a |-> Null, b |-> Null, ret |-> "void"]

----------------------------------------------------------------------------
(* Constructors *)

\* Intrusive_list_node(): both links null.
node_ctor(p, n) ==
    [prev |-> [p.prev EXCEPT ![n] = Null], next |-> [p.next EXCEPT ![n] = Null]]

\* Intrusive_list(): the sentinel points at itself both ways.
list_ctor(p, s) ==
    LET p1 == [p EXCEPT !.prev[s] = s]
        p2 == [p1 EXCEPT !.next[s] = s]
    IN p2

\* Intrusive_list(Intrusive_list&& rhs): d is the new sentinel, r is rhs's.
list_move_ctor(p, d, r) ==
    LET p0 == node_ctor(p, d)
        p1 == [p0 EXCEPT !.prev[d] = p0.prev[r]]
        p2 == [p1 EXCEPT !.next[d] = p1.next[r]]
        p3 == [p2 EXCEPT !.prev[r] = r]
        p4 == [p3 EXCEPT !.next[r] = r]
    IN p4

----------------------------------------------------------------------------
(* Observers *)

\* empty(): tests m_sentinel.m_next only.
empty(p, s) == p.next[s] = s

\* A traversal that follows m_next over the finitely many objects either
\* reaches the sentinel within Fuel steps or never does.
Fuel == Cardinality(Addr) + 1

RECURSIVE size_loop(_, _, _, _, _)
size_loop(p, s, n, count, fuel) ==
    IF n = s THEN count
    ELSE IF fuel = 0 THEN 0 - 1
    ELSE size_loop(p, s, p.next[n], count + 1, fuel - 1)

\* size() whose count starts at 1.
size_counts_sentinel(p, s) == size_loop(p, s, p.next[s], 1, Fuel)

\* size(): the count of the traversal, or -1 when the loop never ends.
size(p, s) == size_loop(p, s, p.next[s], 0, Fuel)

\* front<T>() / back<T>(): Null on an empty list.
front(p, s) == IF empty(p, s) THEN Null ELSE p.next[s]
\* back() that reads m_sentinel.m_next.
back_from_next(p, s) == IF empty(p, s) THEN Null ELSE p.next[s]

back(p, s) == IF empty(p, s) THEN Null ELSE p.prev[s]

\* begin() / end() / operator++ / operator--.
begin(p, s) == p.next[s]
end(p, s) == s
iter_inc(p, it) == p.next[it]
\* operator-- that follows next().
iter_dec_follows_next(p, it) == p.next[it]

iter_dec(p, it) == p.prev[it]

RECURSIVE iterate(_, _, _, _)
iterate(p, s, it, fuel) ==
    IF it = end(p, s) \/ fuel = 0 THEN <<>>
    ELSE <<it>> \o iterate(p, s, iter_inc(p, it), fuel - 1)

\* The nodes visited by for(it = begin(); it != end(); ++it), in order.
Order(p, s) == iterate(p, s, begin(p, s), Fuel)

RECURSIVE riterate(_, _, _, _)
riterate(p, s, it, fuel) ==
    IF it = end(p, s) \/ fuel = 0 THEN <<>>
    ELSE <<it>> \o riterate(p, s, iter_dec(p, it), fuel - 1)

\* The nodes visited from end() by operator--, in order of visit.
ROrder(p, s) == riterate(p, s, iter_dec(p, end(p, s)), Fuel)

\* is_node_adj() that tests a->m_next alone.
is_node_adj_forward_only(p, a, b) == p.next[a] = b

is_node_adj(p, a, b) ==
    (p.next[a] = b) \/ (p.prev[a] = b) \/ (p.next[b] = a) \/ (p.prev[b] = a)
\* is_a_left_b() that tests a->m_prev.
is_a_left_b_by_prev(p, a, b) == p.prev[a] = b

is_a_left_b(p, a, b) == p.next[a] = b
is_a_right_b(p, a, b) == p.prev[a] = b

----------------------------------------------------------------------------
(* Mutators *)

\* push_front() that forgets to point the old first node back at the new one.
push_front_no_backlink(p, s, node) ==
    LET p2 == [p EXCEPT !.next[node] = p.next[s]]
        p3 == [p2 EXCEPT !.prev[node] = s]
        p4 == [p3 EXCEPT !.next[s] = node]
    IN p4

push_front(p, s, node) ==
    LET p1 == [p EXCEPT !.prev[p.next[s]] = node]
        p2 == [p1 EXCEPT !.next[node] = p1.next[s]]
        p3 == [p2 EXCEPT !.prev[node] = s]
        p4 == [p3 EXCEPT !.next[s] = node]
    IN p4

\* push_back() that sets node->m_next only when it is still null.
push_back_keeps_next(p, s, node) ==
    LET p1 == [p EXCEPT !.next[p.prev[s]] = node]
        p2 == [p1 EXCEPT !.prev[node] = p1.prev[s]]
        p3 == IF p2.next[node] = Null THEN [p2 EXCEPT !.next[node] = s] ELSE p2
        p4 == [p3 EXCEPT !.prev[s] = node]
    IN p4

\* push_back() that links the node in at the front end.
push_back_at_front(p, s, node) ==
    LET p1 == [p EXCEPT !.prev[p.next[s]] = node]
        p2 == [p1 EXCEPT !.next[node] = p1.next[s]]
        p3 == [p2 EXCEPT !.prev[node] = s]
        p4 == [p3 EXCEPT !.next[s] = node]
    IN p4

push_back(p, s, node) ==
    LET p1 == [p EXCEPT !.next[p.prev[s]] = node]
        p2 == [p1 EXCEPT !.prev[node] = p1.prev[s]]
        p3 == [p2 EXCEPT !.next[node] = s]
        p4 == [p3 EXCEPT !.prev[s] = node]
    IN p4

\* pop_front() that forgets to point the new first node back at the sentinel.
pop_front_no_relink(p, s) ==
    [p EXCEPT !.next[s] = p.next[p.next[s]]]

\* pop_front() that also nulls the links of the node it removed.
pop_front_reset_removed(p, s) ==
    LET n == p.next[s]
        p1 == [p EXCEPT !.next[s] = p.next[n]]
        p2 == [p1 EXCEPT !.prev[p1.next[s]] = s]
        p3 == [p2 EXCEPT !.next[n] = Null]
        p4 == [p3 EXCEPT !.prev[n] = Null]
    IN p4

pop_front(p, s) ==
    LET p1 == [p EXCEPT !.next[s] = p.next[p.next[s]]]
        p2 == [p1 EXCEPT !.prev[p1.next[s]] = s]
    IN p2

\* pop_back() that forgets to point the new last node at the sentinel.
pop_back_no_relink(p, s) ==
    [p EXCEPT !.prev[s] = p.prev[p.prev[s]]]

pop_back(p, s) ==
    LET p1 == [p EXCEPT !.prev[s] = p.prev[p.prev[s]]]
        p2 == [p1 EXCEPT !.next[p1.prev[s]] = s]
    IN p2

\* unlink() that forgets n_next->m_prev = n_prev.
unlink_no_back_relink(p, s, node) ==
    LET n_prev == p.prev[node]
        n_next == p.next[node]
        p1 == [p EXCEPT !.next[n_prev] = n_next]
        p3 == [p1 EXCEPT !.next[node] = s]
        p4 == [p3 EXCEPT !.prev[node] = s]
    IN p4

\* unlink() that resets the removed node's links to nullptr.
unlink_null_reset(p, s, node) ==
    LET n_prev == p.prev[node]
        n_next == p.next[node]
        p1 == [p EXCEPT !.next[n_prev] = n_next]
        p2 == [p1 EXCEPT !.prev[n_next] = n_prev]
        p3 == [p2 EXCEPT !.next[node] = Null]
        p4 == [p3 EXCEPT !.prev[node] = Null]
    IN p4

\* unlink(node) of the list whose sentinel is s.
unlink(p, s, node) ==
    LET n_prev == p.prev[node]
        n_next == p.next[node]
        p1 == [p EXCEPT !.next[n_prev] = n_next]
        p2 == [p1 EXCEPT !.prev[n_next] = n_prev]
        p3 == [p2 EXCEPT !.next[node] = s]
        p4 == [p3 EXCEPT !.prev[node] = s]
    IN p4

RECURSIVE erase_loop(_, _, _, _, _)
erase_loop(p, s, node, curr, fuel) ==
    IF curr = s THEN [ret |-> "false", p |-> p]
    ELSE IF curr = node THEN [ret |-> "true", p |-> unlink(p, s, curr)]
    ELSE IF fuel = 0 THEN [ret |-> "hang", p |-> p]
    ELSE erase_loop(p, s, node, p.next[curr], fuel - 1)

\* erase() whose scan starts one node too late.
erase_skip_first(p, s, node) ==
    IF empty(p, s) THEN [ret |-> "false", p |-> p]
    ELSE erase_loop(p, s, node, p.next[p.next[s]], Fuel)

\* erase(node): the result and the memory afterwards; "hang" when the scan
\* never reaches the sentinel.
erase(p, s, node) ==
    IF empty(p, s) THEN [ret |-> "false", p |-> p]
    ELSE erase_loop(p, s, node, p.next[s], Fuel)

\* swap_adjacent() that forgets lhs_prev->m_next = rhs.
swap_adjacent_no_prev_relink(p, lhs, rhs) ==
    LET rhs_next == p.next[rhs]
        p1 == [p EXCEPT !.prev[lhs] = rhs]
        p2 == [p1 EXCEPT !.next[lhs] = rhs_next]
        p3 == [p2 EXCEPT !.prev[rhs] = p.prev[lhs]]
        p4 == [p3 EXCEPT !.next[rhs] = lhs]
        p6 == [p4 EXCEPT !.prev[rhs_next] = lhs]
    IN p6

swap_adjacent(p, lhs, rhs) ==
    LET lhs_prev == p.prev[lhs]
        rhs_next == p.next[rhs]
        p1 == [p EXCEPT !.prev[lhs] = rhs]
        p2 == [p1 EXCEPT !.next[lhs] = rhs_next]
        p3 == [p2 EXCEPT !.prev[rhs] = lhs_prev]
        p4 == [p3 EXCEPT !.next[rhs] = lhs]
        p5 == [p4 EXCEPT !.next[lhs_prev] = rhs]
        p6 == [p5 EXCEPT !.prev[rhs_next] = lhs]
    IN p6

\* The non-adjacent branch of swap().
swap_far(p, a, b) ==
    LET a_prev == p.prev[a]
        a_next == p.next[a]
        b_prev == p.prev[b]
        b_next == p.next[b]
        p1 == [p EXCEPT !.next[a_prev] = b]
        p2 == [p1 EXCEPT !.prev[a_next] = b]
        p3 == [p2 EXCEPT !.next[b_prev] = a]
        p4 == [p3 EXCEPT !.prev[b_next] = a]
        p5 == [p4 EXCEPT !.prev[b] = a_prev]
        p6 == [p5 EXCEPT !.next[b] = a_next]
        p7 == [p6 EXCEPT !.prev[a] = b_prev]
        p8 == [p7 EXCEPT !.next[a] = b_next]
    IN p8

\* swap() without the "a follows b" branch.
swap_no_right_case(p, a, b) ==
    IF a = b THEN p
    ELSE IF is_a_left_b(p, a, b) THEN swap_adjacent(p, a, b)
    ELSE swap_far(p, a, b)

\* swap() whose "a follows b" branch passes the operands in the given order.
swap_operands_not_reordered(p, a, b) ==
    IF a = b THEN p
    ELSE IF is_a_left_b(p, a, b) THEN swap_adjacent(p, a, b)
    ELSE IF is_a_right_b(p, a, b) THEN swap_adjacent(p, a, b)
    ELSE swap_far(p, a, b)

swap(p, a, b) ==
    IF a = b THEN p
    ELSE IF is_a_left_b(p, a, b) THEN swap_adjacent(p, a, b)
    ELSE IF is_a_right_b(p, a, b) THEN swap_adjacent(p, b, a)
    ELSE swap_far(p, a, b)

----------------------------------------------------------------------------
(* The caller *)

ToSet(seq) == {seq[i] : i \in 1..Len(seq)}

\* The real nodes of list l: what iteration from begin() to end() visits.
Members(p, l) == ToSet(Order(p, Sentinel(l)))

\* The caller's obligation for push: the node is in no list.
Unlinked(p, n) == \A l \in constructed : n \notin Members(p, l)

\* A call that never returned leaves nothing further to run.
Running == call.ret # "hang" /\ ncalls < MaxCalls

Called(op, l, a, b, ret) ==
    /\ call' = [op |-> op, l |-> l, a |-> a, b |-> b, ret |-> ret]
    /\ ncalls' = ncalls + 1

Store(p) == /\ m_prev' = p.prev
            /\ m_next' = p.next

Init ==
    /\ m_prev = [x \in Addr |-> IF x = Sentinel(1) THEN x ELSE Null]
    /\ m_next = [x \in Addr |-> IF x = Sentinel(1) THEN x ELSE Null]
    /\ constructed = {1}
    /\ call = NoCall
    /\ ncalls = 0
    /\ present = [l \in Lists |-> {}]

Construct(l) ==
    /\ Running
    /\ l \notin constructed
    /\ Store(list_ctor(node_ctor(Mem, Sentinel(l)), Sentinel(l)))
    /\ constructed' = constructed \cup {l}
    /\ Called("ctor", l, Null, Null, "void")
    /\ UNCHANGED present

MoveConstruct(d, r) ==
    /\ Running
    /\ d \notin constructed
    /\ r \in constructed
    /\ Store(list_move_ctor(Mem, Sentinel(d), Sentinel(r)))
    /\ constructed' = constructed \cup {d}
    /\ Called("move_ctor", d, Sentinel(r), Null, "void")
    /\ present' = [present EXCEPT ![d] = present[r], ![r] = {}]

PushFront(l, n) ==
    /\ Running
    /\ l \in constructed
    /\ Unlinked(Mem, n)
    /\ Store(push_front(Mem, Sentinel(l), n))
    /\ Called("push_front", l, n, Null, "void")
    /\ present' = [present EXCEPT ![l] = @ \cup {n}]
    /\ UNCHANGED constructed

PushBack(l, n) ==
    /\ Running
    /\ l \in constructed
    /\ Unlinked(Mem, n)
    /\ Store(push_back(Mem, Sentinel(l), n))
    /\ Called("push_back", l, n, Null, "void")
    /\ present' = [present EXCEPT ![l] = @ \cup {n}]
    /\ UNCHANGED constructed

\* pop_front() has no guard in the code; call.a records the node that was
\* at the front (the sentinel itself on an empty list).
PopFront(l) ==
    /\ Running
    /\ l \in constructed
    /\ Store(pop_front(Mem, Sentinel(l)))
    /\ Called("pop_front", l, m_next[Sentinel(l)], Null, "void")
    /\ present' = [present EXCEPT ![l] = @ \ {m_next[Sentinel(l)]}]
    /\ UNCHANGED constructed

PopBack(l) ==
    /\ Running
    /\ l \in constructed
    /\ Store(pop_back(Mem, Sentinel(l)))
    /\ Called("pop_back", l, m_prev[Sentinel(l)], Null, "void")
    /\ present' = [present EXCEPT ![l] = @ \ {m_prev[Sentinel(l)]}]
    /\ UNCHANGED constructed

\* erase() accepts any pointer: a node of this list, of another list, of no
\* list, a sentinel, or nullptr.
Erase(l, x) ==
    /\ Running
    /\ l \in constructed
    /\ LET r == erase(Mem, Sentinel(l), x)
       IN /\ Store(r.p)
          /\ Called("erase", l, x, Null, r.ret)
          /\ present' = [present EXCEPT
                            ![l] = IF r.ret = "true" THEN @ \ {x} ELSE @]
    /\ UNCHANGED constructed

\* swap() is called with two nodes of this list.
Swap(l, a, b) ==
    /\ Running
    /\ l \in constructed
    /\ a \in Members(Mem, l)
    /\ b \in Members(Mem, l)
    /\ Store(swap(Mem, a, b))
    /\ Called("swap", l, a, b, "void")
    /\ UNCHANGED present
    /\ UNCHANGED constructed

Next ==
    \/ \E l \in Lists : Construct(l)
    \/ \E l \in Lists, n \in Nodes : PushFront(l, n)
    \/ \E l \in Lists, n \in Nodes : PushBack(l, n)
    \/ \E l \in Lists : PopFront(l)
    \/ \E l \in Lists : PopBack(l)
    \/ \E l \in Lists, x \in Ptr : Erase(l, x)
    \/ \E l \in Lists, a \in Nodes, b \in Nodes : Swap(l, a, b)

Spec == Init /\ [][Next]_vars

NextMove ==
    \/ Next
    \/ \E d \in Lists, r \in Lists : MoveConstruct(d, r)

SpecMove == Init /\ [][NextMove]_vars

----------------------------------------------------------------------------
(* Vocabulary of the properties *)

Reverse(seq) == [i \in 1..Len(seq) |-> seq[Len(seq) + 1 - i]]
Remove(seq, x) == SelectSeq(seq, LAMBDA e : e # x)
Exchange(seq, a, b) ==
    [i \in 1..Len(seq) |->
        IF seq[i] = a THEN b ELSE IF seq[i] = b THEN a ELSE seq[i]]

\* The object reached from n by following m_next k times.
RECURSIVE Follow(_, _, _)
Follow(p, n, k) == IF k = 0 THEN n ELSE Follow(p, p.next[n], k - 1)

\* The ring of list l: its sentinel and its real nodes.
Ring(p, l) == {Sentinel(l)} \cup Members(p, l)

\* The list is in the empty-ring state.
EmptyRing(p, s) == p.next[s] = s /\ p.prev[s] = s

\* Every object of the ring of l is consistently linked both ways.
Linked(p, l) ==
    \A n \in Ring(p, l) : p.prev[p.next[n]] = n /\ p.next[p.prev[n]] = n

IsPop(c) == c.op \in {"pop_front", "pop_back"}

----------------------------------------------------------------------------
(* Properties *)

\* C1: ring invariant. In every state reached by push_front, push_back,
\* pop_front, pop_back, erase and swap on newly constructed lists, every
\* object n of a list's ring (the sentinel included) has n.next.prev = n and
\* n.prev.next = n, and following next from n comes back to n after exactly
\* size()+1 steps and not earlier.
C1_RingInvariant ==
    \A l \in constructed :
        LET sz == size(Mem, Sentinel(l))
        IN /\ sz >= 0
           /\ Linked(Mem, l)
           /\ \A n \in Ring(Mem, l) :
                /\ Follow(Mem, n, sz + 1) = n
                /\ \A k \in 1..sz : Follow(Mem, n, k) # n

\* A three-node list that has just been reordered by swap.
C1_Witness ==
    /\ call.op = "swap"
    /\ call.a # call.b
    /\ size(Mem, Sentinel(call.l)) = 3

\* C2: emptiness. For every list, empty() is true exactly when size() is 0
\* and exactly when sentinel.next and sentinel.prev both are the sentinel.
C2_EmptyIffSizeZero ==
    \A l \in constructed :
        LET s == Sentinel(l)
        IN /\ empty(Mem, s) <=> (size(Mem, s) = 0)
           /\ empty(Mem, s) <=> EmptyRing(Mem, s)

\* A list that has just lost its only node.
C2_Witness ==
    /\ IsPop(call)
    /\ call.a \in Nodes
    /\ empty(Mem, Sentinel(call.l))
    /\ size(Mem, Sentinel(call.l)) = 0

\* C3: erase(x) on list L returns true and takes x out of L's order, the
\* other nodes keeping their order in both directions, exactly when x was a
\* real node of L before the call; otherwise it returns false and changes no
\* pointer of any object.
C3_EraseIffPresent ==
    [][call'.op = "erase" =>
        LET s == Sentinel(call'.l)
            x == call'.a
            before == Order(Mem, s)
        IN IF x \in ToSet(before)
           THEN /\ call'.ret = "true"
                /\ Order(Mem', s) = Remove(before, x)
                /\ ROrder(Mem', s) = Reverse(Remove(before, x))
           ELSE /\ call'.ret = "false"
                /\ m_prev' = m_prev
                /\ m_next' = m_next]_vars

\* erase() has just refused a node that is linked in another list.
C3_Witness ==
    /\ call.op = "erase"
    /\ call.ret = "false"
    /\ \E l \in constructed \ {call.l} : call.a \in Members(Mem, l)
    /\ ~ empty(Mem, Sentinel(call.l))

\* C4: swap(a, b) of two nodes of one list exchanges their two positions in
\* the iteration order and leaves every other node at its index, whether a
\* is right before b, right after b, or not adjacent to b; swap(a, a)
\* changes nothing.
C4_SwapExchangesPositions ==
    [][call'.op = "swap" =>
        LET s == Sentinel(call'.l)
            a == call'.a
            b == call'.b
        IN /\ Order(Mem', s) = Exchange(Order(Mem, s), a, b)
           /\ a = b => (m_prev' = m_prev /\ m_next' = m_next)]_vars

\* swap has just exchanged the first and the last node of a three-node list.
C4_Witness ==
    /\ call.op = "swap"
    /\ size(Mem, Sentinel(call.l)) = 3
    /\ front(Mem, Sentinel(call.l)) = call.b
    /\ back(Mem, Sentinel(call.l)) = call.a

\* C5: swap is an involution. After swap(a, b), a second swap(a, b) gives
\* every object back the prev and next it had before the first.
C5_SwapTwiceRestores ==
    [][call'.op = "swap" =>
        LET again == swap(Mem', call'.a, call'.b)
        IN again.prev = m_prev /\ again.next = m_next]_vars

\* swap has just exchanged two adjacent nodes: a, which was right before b,
\* is now right after it.
C5_Witness ==
    /\ call.op = "swap"
    /\ call.a # call.b
    /\ is_a_right_b(Mem, call.a, call.b)
    /\ size(Mem, Sentinel(call.l)) >= 2

\* Two memories agree on every object other than x.
SameExcept(p, q, x) ==
    \A y \in Addr \ {x} : p.prev[y] = q.prev[y] /\ p.next[y] = q.next[y]

\* C6: push/pop symmetry. After push_front(x) of a node that was in no list,
\* an immediate pop_front() leaves the sentinel and every node other than x
\* with the prev and next they had before the push, whatever the list held;
\* likewise push_back(x) followed by pop_back().
C6_PushThenPopRestores ==
    [][/\ call'.op = "push_front" =>
            SameExcept(pop_front(Mem', Sentinel(call'.l)), Mem, call'.a)
       /\ call'.op = "push_back" =>
            SameExcept(pop_back(Mem', Sentinel(call'.l)), Mem, call'.a)]_vars

\* A node has just been pushed at the back of a list that already held two.
C6_Witness ==
    /\ call.op = "push_back"
    /\ size(Mem, Sentinel(call.l)) = 3
    /\ back(Mem, Sentinel(call.l)) = call.a

\* C7: the end operations form a double-ended queue over the iteration
\* order. push_front(x) gives x followed by the old order, push_back(x) the
\* old order followed by x, pop_front() on a non-empty list drops exactly
\* the first node and pop_back() exactly the last.
C7_DequeOrder ==
    [][LET s == Sentinel(call'.l)
           before == Order(Mem, s)
           after == Order(Mem', s)
       IN /\ call'.op = "push_front" => after = <<call'.a>> \o before
          /\ call'.op = "push_back" => after = before \o <<call'.a>>
          /\ (call'.op = "pop_front" /\ before # <<>>) =>
                after = SubSeq(before, 2, Len(before))
          /\ (call'.op = "pop_back" /\ before # <<>>) =>
                after = SubSeq(before, 1, Len(before) - 1)]_vars

\* pop_front() has just removed the first of three nodes.
C7_Witness ==
    /\ call.op = "pop_front"
    /\ call.a \in Nodes
    /\ size(Mem, Sentinel(call.l)) = 2

\* C8 as stated: pop_front() or pop_back() on an empty list corrupts the
\* sentinel, so that afterwards the list is not in the empty-ring state
\* sentinel.next = sentinel.prev = &sentinel.
C8_PopOnEmptyCorrupts ==
    (IsPop(call) /\ call.a = Sentinel(call.l)) =>
        ~ EmptyRing(Mem, Sentinel(call.l))

\* C8 amended: pop_front() or pop_back() on an empty list changes no
\* pointer of any object, and the list stays in the empty-ring state.
C8_PopOnEmptyIsNoOp ==
    [][(IsPop(call') /\ empty(Mem, Sentinel(call'.l))) =>
        /\ m_prev' = m_prev
        /\ m_next' = m_next
        /\ EmptyRing(Mem', Sentinel(call'.l))]_vars

\* pop_front() has just been called on an empty list while another list
\* holds a node.
C8_Witness ==
    /\ call.op = "pop_front"
    /\ call.a = Sentinel(call.l)
    /\ \E l \in constructed : ~ empty(Mem, Sentinel(l))

\* C9: move construction of D from S leaves S an empty ring and D a valid
\* ring around D's own sentinel: D.sentinel.next/prev are S's old first and
\* last node, whose prev and next point at D's sentinel; D is empty if S was
\* empty; n.next.prev = n and n.prev.next = n hold in D.
C9_MoveTransfersRing ==
    [][call'.op = "move_ctor" =>
        LET d == Sentinel(call'.l)
            r == call'.a
        IN /\ EmptyRing(Mem', r)
           /\ IF empty(Mem, r)
              THEN EmptyRing(Mem', d)
              ELSE /\ m_next'[d] = m_next[r]
                   /\ m_prev'[d] = m_prev[r]
                   /\ m_prev'[m_next[r]] = d
                   /\ m_next'[m_prev[r]] = d
           /\ Linked(Mem', call'.l)]_vars

\* C10 as stated: a node removed by pop_front, pop_back or a successful
\* erase has its own prev and next reset to itself or to null.
C10_RemovedNodeReset ==
    ((IsPop(call) /\ call.a \in Nodes) \/ (call.op = "erase" /\ call.ret = "true")) =>
        \/ m_prev[call.a] = call.a /\ m_next[call.a] = call.a
        \/ m_prev[call.a] = Null /\ m_next[call.a] = Null

\* C10 amended: a node removed by a successful erase has its prev and next
\* both set to the address of that list's sentinel; a node removed by
\* pop_front or pop_back keeps the prev and next it had before the call.
C10_RemovedNodePointers ==
    [][/\ (call'.op = "erase" /\ call'.ret = "true") =>
            /\ m_prev'[call'.a] = Sentinel(call'.l)
            /\ m_next'[call'.a] = Sentinel(call'.l)
       /\ (IsPop(call') /\ call'.a \in Nodes) =>
            /\ m_prev'[call'.a] = m_prev[call'.a]
            /\ m_next'[call'.a] = m_next[call'.a]]_vars

\* erase() has just removed the middle node of three.
C10_Witness ==
    /\ call.op = "erase"
    /\ call.ret = "true"
    /\ size(Mem, Sentinel(call.l)) = 2
    /\ call.a \notin Members(Mem, call.l)

\* C11: after a successful erase(x) on list L, x's prev and next both are
\* the address of L's sentinel, x's former predecessor and successor point
\* at each other, and no remaining real node of L has prev or next equal
\* to x.
C11_EraseUnlinks ==
    [][(call'.op = "erase" /\ call'.ret = "true") =>
        LET s == Sentinel(call'.l)
            x == call'.a
            pred == m_prev[x]
            succ == m_next[x]
        IN /\ m_prev'[x] = s
           /\ m_next'[x] = s
           /\ m_next'[pred] = succ
           /\ m_prev'[succ] = pred
           /\ \A n \in Members(Mem', call'.l) :
                m_prev'[n] # x /\ m_next'[n] # x]_vars

\* erase() has just removed a node and left exactly one node in the list.
C11_Witness ==
    /\ call.op = "erase"
    /\ call.ret = "true"
    /\ size(Mem, Sentinel(call.l)) = 1
    /\ m_prev[call.a] = Sentinel(call.l)
    /\ m_next[call.a] = Sentinel(call.l)

\* C12: pop_front() and pop_back() on a non-empty list leave the removed
\* node's own prev and next as they were immediately before the call, and
\* afterwards no object of the ring points to the removed node.
C12_PopLeavesStale ==
    [][(IsPop(call') /\ ~ empty(Mem, Sentinel(call'.l))) =>
        LET x == call'.a
        IN /\ x \in Nodes
           /\ m_prev'[x] = m_prev[x]
           /\ m_next'[x] = m_next[x]
           /\ \A n \in Ring(Mem', call'.l) :
                m_prev'[n] # x /\ m_next'[n] # x]_vars

\* pop_back() has just removed a node whose stale prev still names a node
\* that remains in the list.
C12_Witness ==
    /\ call.op = "pop_back"
    /\ call.a \in Nodes
    /\ m_prev[call.a] \in Members(Mem, call.l)
    /\ m_next[call.a] = Sentinel(call.l)

\* The nodes currently linked into some list.
LinkedNodes == UNION {Members(Mem, l) : l \in constructed}

\* C13: for any two distinct linked nodes a and b, is_node_adj(a, b) equals
\* is_a_left_b(a, b) or is_a_right_b(a, b) or is_a_left_b(b, a) or
\* is_a_right_b(b, a).
C13_AdjIsLeftOrRight ==
    \A a \in LinkedNodes : \A b \in LinkedNodes \ {a} :
        is_node_adj(Mem, a, b) <=>
            \/ is_a_left_b(Mem, a, b)
            \/ is_a_right_b(Mem, a, b)
            \/ is_a_left_b(Mem, b, a)
            \/ is_a_right_b(Mem, b, a)

\* Two lists hold nodes, and one of them holds an adjacent pair.
C13_Witness ==
    /\ \A l \in Lists : l \in constructed /\ ~ empty(Mem, Sentinel(l))
    /\ \E a \in LinkedNodes : \E b \in LinkedNodes \ {a} :
            is_node_adj(Mem, a, b)

\* The index of x in seq (0 when absent).
Pos(seq, x) ==
    IF x \in ToSet(seq) THEN CHOOSE i \in 1..Len(seq) : seq[i] = x ELSE 0

\* C14: for two distinct real nodes a and b of one list, is_a_left_b(a, b)
\* holds iff a is immediately before b in iteration order, is_a_right_b(a, b)
\* iff a is immediately after b, so is_a_left_b(a, b) = is_a_right_b(b, a)
\* and the two never both hold for one ordered pair; is_node_adj(a, b) holds
\* iff the positions differ by exactly one.
C14_AdjacencyMatchesOrder ==
    \A l \in constructed :
        LET o == Order(Mem, Sentinel(l))
        IN \A a \in ToSet(o) : \A b \in ToSet(o) \ {a} :
            /\ is_a_left_b(Mem, a, b) <=> (Pos(o, a) + 1 = Pos(o, b))
            /\ is_a_right_b(Mem, a, b) <=> (Pos(o, a) = Pos(o, b) + 1)
            /\ is_a_left_b(Mem, a, b) <=> is_a_right_b(Mem, b, a)
            /\ ~ (is_a_left_b(Mem, a, b) /\ is_a_right_b(Mem, a, b))
            /\ is_node_adj(Mem, a, b) <=>
                    (Pos(o, a) + 1 = Pos(o, b) \/ Pos(o, a) = Pos(o, b) + 1)

\* A three-node list, whose first and last node are not adjacent, and whose
\* first node is left of the second.
C14_Witness ==
    \E l \in constructed :
        LET o == Order(Mem, Sentinel(l))
        IN /\ Len(o) = 3
           /\ ~ is_node_adj(Mem, o[1], o[3])
           /\ is_a_left_b(Mem, o[1], o[2])
           /\ ~ is_a_right_b(Mem, o[1], o[2])

\* C15: front() and back() return null exactly when the list is empty; on
\* a non-empty list front() is the first node in iteration order and back()
\* the last, neither is the sentinel, and they are the same node iff
\* size() = 1.
C15_FrontBack ==
    \A l \in constructed :
        LET s == Sentinel(l)
            o == Order(Mem, s)
        IN /\ (front(Mem, s) = Null) <=> empty(Mem, s)
           /\ (back(Mem, s) = Null) <=> empty(Mem, s)
           /\ ~ empty(Mem, s) =>
                /\ o # <<>>
                /\ front(Mem, s) = o[1]
                /\ back(Mem, s) = o[Len(o)]
                /\ front(Mem, s) \in Nodes
                /\ back(Mem, s) \in Nodes
                /\ (front(Mem, s) = back(Mem, s)) <=> (size(Mem, s) = 1)

\* A list of two nodes next to an empty list.
C15_Witness ==
    \E l \in constructed : \E k \in constructed :
        /\ size(Mem, Sentinel(l)) = 2
        /\ front(Mem, Sentinel(l)) # back(Mem, Sentinel(l))
        /\ front(Mem, Sentinel(k)) = Null

\* The iterator reached from it by k applications of operator++.
RECURSIVE Inc(_, _, _)
Inc(p, it, k) == IF k = 0 THEN it ELSE Inc(p, iter_inc(p, it), k - 1)

\* The iterator reached from it by k applications of operator--.
RECURSIVE Dec(_, _, _)
Dec(p, it, k) == IF k = 0 THEN it ELSE Dec(p, iter_dec(p, it), k - 1)

NoDuplicates(seq) == \A i, j \in 1..Len(seq) : seq[i] = seq[j] => i = j

\* C16: begin() = end() iff the list is empty; operator++ from begin()
\* visits every node the caller holds in the list exactly once and reaches
\* end() after exactly size() increments; operator-- from end() visits the
\* same nodes in the reverse order and is back at end() after size()+1
\* decrements.
C16_Iteration ==
    \A l \in constructed :
        LET s == Sentinel(l)
            sz == size(Mem, s)
            o == Order(Mem, s)
        IN /\ (begin(Mem, s) = end(Mem, s)) <=> empty(Mem, s)
           /\ Len(o) = sz
           /\ NoDuplicates(o)
           /\ ToSet(o) = present[l]
           /\ Inc(Mem, begin(Mem, s), sz) = end(Mem, s)
           /\ \A k \in 0..(sz - 1) : Inc(Mem, begin(Mem, s), k) # end(Mem, s)
           /\ ROrder(Mem, s) = Reverse(o)
           /\ Dec(Mem, end(Mem, s), sz + 1) = end(Mem, s)
           /\ \A k \in 1..sz : Dec(Mem, end(Mem, s), k) = o[sz + 1 - k]

\* A three-node list that swap has put out of insertion order.
C16_Witness ==
    /\ call.op = "swap"
    /\ call.a # call.b
    /\ Len(Order(Mem, Sentinel(call.l))) = 3
    /\ ROrder(Mem, Sentinel(call.l)) = Reverse(Order(Mem, Sentinel(call.l)))

\* C17: every traversal ends. On every list produced by default
\* construction, move construction, push_front, push_back, pop_front,
\* pop_back, erase and swap, the loops of size() and erase() reach that
\* list's own sentinel after visiting at most as many nodes as the caller
\* holds in the list.
C17_TraversalsTerminate ==
    /\ call.ret # "hang"
    /\ \A l \in constructed :
        /\ size(Mem, Sentinel(l)) >= 0
        /\ size(Mem, Sentinel(l)) <= Cardinality(present[l])

IsPush(c) == c.op \in {"push_front", "push_back"}

\* How many times x occurs in seq.
Count(seq, x) == Cardinality({i \in 1..Len(seq) : seq[i] = x})

\* C18: a removed node may be inserted again whatever its leftover links.
\* A node that was linked before holds non-null links (stale after a pop,
\* the sentinel after erase); push_front or push_back of such a node, on the
\* same or another list, overwrites both its links, the ring of that list is
\* consistently linked afterwards, and the node occurs exactly once in it
\* and in no other list.
C18_ReinsertAfterRemoval ==
    [][(IsPush(call') /\ m_prev[call'.a] # Null /\ m_next[call'.a] # Null) =>
        LET s == Sentinel(call'.l)
            x == call'.a
        IN /\ call'.op = "push_front" =>
                (m_prev'[x] = s /\ m_next'[x] = m_next[s])
           /\ call'.op = "push_back" =>
                (m_next'[x] = s /\ m_prev'[x] = m_prev[s])
           /\ Linked(Mem', call'.l)
           /\ Count(Order(Mem', s), x) = 1
           /\ \A k \in constructed \ {call'.l} : x \notin Members(Mem', k)]_vars

\* A node has just been pushed into one list while an unlinked node still
\* holds the stale links it had as the first node of another list, right
\* before the pushed node: the pushed node was in that other list and was
\* removed from it.
C18_Witness ==
    /\ IsPush(call)
    /\ \E z \in Nodes \ LinkedNodes : \E k \in constructed \ {call.l} :
            /\ z # call.a
            /\ m_next[z] = call.a
            /\ m_prev[z] = Sentinel(k)

\* C19: swap is symmetric in its arguments: from one starting state,
\* swap(a, b) and swap(b, a) leave the same prev and next in every object.
C19_SwapSymmetric ==
    [][call'.op = "swap" =>
        LET other == swap(Mem, call'.b, call'.a)
        IN other.prev = m_prev' /\ other.next = m_next']_vars

\* swap(a, b) has just run with a right after b: a is now right before b.
C19_Witness ==
    /\ call.op = "swap"
    /\ call.a # call.b
    /\ is_a_left_b(Mem, call.a, call.b)
    /\ size(Mem, Sentinel(call.l)) = 3

\* C20: size() tracks membership. push_front and push_back raise size() by
\* exactly 1, pop_front and pop_back on a non-empty list and a successful
\* erase lower it by exactly 1, swap and a failed erase leave it unchanged;
\* size() is always the number of nodes inserted and not yet removed, and no
\* node occurs twice in the ring.
C20_SizeTracksMembership ==
    [][LET s == Sentinel(call'.l)
           before == size(Mem, s)
           after == size(Mem', s)
       IN /\ IsPush(call') => after = before + 1
          /\ (IsPop(call') /\ ~ empty(Mem, s)) => after = before - 1
          /\ (call'.op = "erase" /\ call'.ret = "true") => after = before - 1
          /\ (call'.op = "erase" /\ call'.ret = "false") => after = before
          /\ call'.op = "swap" => after = before
          /\ \A l \in constructed' :
                /\ size(Mem', Sentinel(l)) = Cardinality(present'[l])
                /\ NoDuplicates(Order(Mem', Sentinel(l)))]_vars

\* A failed erase has just left a two-node list as it was.
C20_Witness ==
    /\ call.op = "erase"
    /\ call.ret = "false"
    /\ size(Mem, Sentinel(call.l)) = 2
    /\ Cardinality(present[call.l]) = 2

====
